---- MODULE Spec2Model ----
(***************************************************************************)
(* Model of socialia's deferred-job scheduler (socialia/scheduler.py), its *)
(* org-mode draft parser and draft manager (socialia/org.py) and the       *)
(* directory-stage moves (socialia/org_files.py).                          *)
(*                                                                         *)
(* Time is counted in whole minutes.  The job store is the list kept in    *)
(* ~/.socialia/scheduled.json; one org draft file lives under a project    *)
(* directory with the stage directories drafts/, scheduled/ and posted/.   *)
(* The write-only timestamps created_at / executed_at of a job are not     *)
(* part of the state; job ids (uuid4 prefixes) are fresh integers.         *)
(***************************************************************************)
EXTENDS Integers, Sequences, FiniteSets, TLC

VARIABLES
    store,      \* content of scheduled.json: sequence of Job records
    nextId,     \* next fresh job id
    now,        \* wall clock, minutes
    lines,      \* content of the draft file: sequence of line records
    fileDir,    \* stage directory holding the draft file, or "gone"
    dirs,       \* stage directories that exist
    hist,       \* history: successful cancels of pending jobs, client calls
    storeFile,  \* what scheduled.json holds: a job array (store) or else
    daemon,     \* the run_daemon process: its position and loaded jobs
    lastParse   \* result of the last OrgParser.parse call

vars == <<store, nextId, now, lines, fileDir, dirs, hist, storeFile, daemon, lastParse>>

(* ---------------------------- bounds ----------------------------------- *)
MaxJobs == 2        \* jobs ever created
MaxTime == 2        \* last minute the clock reaches
MaxLines == 14      \* longest draft file a post batch is started on

NoneV == "<none>"   \* Python None / absent key

(* ---------------------------- paths ------------------------------------ *)
PathOf(d) == d \o "/f.org"

\* Path(p).exists()
Exists(p) == fileDir # "gone" /\ p = PathOf(fileDir)

\* org_files._find_target_dir for a file that sits in directory d
FindTargetDir(d, target) ==
    IF target \in dirs THEN target
    ELSE IF d = target THEN d
    ELSE NoneV

(* ---------------------------- helpers ---------------------------------- *)
SeqMap(F(_), s) == [i \in 1..Len(s) |-> F(s[i])]
Range(s) == {s[i] : i \in 1..Len(s)}

\* indexes of a finite set of naturals in ascending order
RECURSIVE SortedSeq(_)
SortedSeq(S) ==
    IF S = {} THEN <<>>
    ELSE LET m == CHOOSE x \in S : \A y \in S : x <= y
         IN <<m>> \o SortedSeq(S \ {m})

(* ------------------------ draft file lines ----------------------------- *)
\* One line of the org file.  k is the shape the parser's tests tell apart:
\*   "head"  a line starting with lvl asterisks and a space, then words w
\*   "sched" a line containing SCHEDULED: <date [day] [time]>, time t
\*   "pstart"/"pend" a line containing :PROPERTIES: / :END:
\*   "prop"  a line of the form :key: val
\*   "text"  any other non-blank line (words w), "blank" a blank line,
\*   "dir"   a line starting with #+
Line(k, lvl, w, t, key, val) ==
    [k |-> k, lvl |-> lvl, w |-> w, t |-> t, key |-> key, val |-> val]
HeadL(lvl, w)  == Line("head", lvl, w, 0, "", "")
SchedL(t)      == Line("sched", 0, <<>>, t, "", "")
PStartL        == Line("pstart", 0, <<>>, 0, "", "")
PEndL          == Line("pend", 0, <<>>, 0, "", "")
PropL(key, val, t) == Line("prop", 0, <<>>, t, key, val)
TextL(w)       == Line("text", 0, w, 0, "", "")
BlankL         == Line("blank", 0, <<>>, 0, "", "")
DirL           == Line("dir", 0, <<>>, 0, "", "")

Keywords == {"TODO", "DONE", "CANCELLED"}
Priorities == {"[#A]", "[#B]", "[#C]"}

RECURSIVE JoinWords(_)
JoinWords(w) ==
    IF Len(w) = 0 THEN ""
    ELSE IF Len(w) = 1 THEN w[1]
    ELSE w[1] \o " " \o JoinWords(Tail(w))

\* str.startswith("*")
StartsWithStar(l) == l.k = "head"

\* a heading pattern that takes one asterisk too
HeadlineMatchAnyLevel(l) == l.k = "head" /\ l.lvl >= 1 /\ Len(l.w) >= 1

\* OrgParser.HEADLINE_RE: two or more asterisks, optional keyword, optional
\* priority cookie, then a non-empty headline.  A group is taken only when
\* text remains for the headline.
HeadlineMatch(l) == l.k = "head" /\ l.lvl >= 2 /\ Len(l.w) >= 1
HeadlineGroups(l) ==
    LET w  == l.w
        kw == IF Len(w) >= 2 /\ w[1] \in Keywords THEN w[1] ELSE NoneV
        r1 == IF kw # NoneV THEN Tail(w) ELSE w
        pr == IF Len(r1) >= 2 /\ r1[1] \in Priorities THEN r1[1] ELSE NoneV
        r2 == IF pr # NoneV THEN Tail(r1) ELSE r1
    IN [status |-> kw, priority |-> pr, headline |-> JoinWords(r2)]

\* text of a line as it enters the draft content
LineText(l) ==
    IF l.k = "text" THEN JoinWords(l.w)
    ELSE IF l.k = "prop" THEN ":" \o l.key \o ": " \o l.val
    ELSE ""

Lower(v) == IF v = "Twitter" THEN "twitter" ELSE v

\* str.strip() on the joined content: trailing blank lines go
RECURSIVE StripTrailing(_)
StripTrailing(c) ==
    IF Len(c) > 0 /\ c[Len(c)] = "" THEN StripTrailing(SubSeq(c, 1, Len(c) - 1))
    ELSE c

\* The inner while loop of OrgParser.parse: scans ls from index i with the
\* accumulated state st and stops at the next line starting with "*".
RECURSIVE BodyScan(_, _, _)
BodyScan(ls, i, st) ==
    IF i > Len(ls) \/ StartsWithStar(ls[i]) THEN [st EXCEPT !.next = i]
    ELSE LET l == ls[i] IN
      IF l.k = "sched" THEN BodyScan(ls, i + 1, [st EXCEPT !.scheduled = l.t])
      ELSE IF l.k = "pstart" THEN BodyScan(ls, i + 1, [st EXCEPT !.inprop = TRUE])
      ELSE IF l.k = "pend" THEN BodyScan(ls, i + 1, [st EXCEPT !.inprop = FALSE])
      ELSE IF st.inprop THEN
        IF l.k = "prop" /\ l.key = "PLATFORM"
          THEN BodyScan(ls, i + 1, [st EXCEPT !.platform = Lower(l.val)])
        ELSE IF l.k = "prop" /\ l.key = "ID"
          THEN BodyScan(ls, i + 1, [st EXCEPT !.draft_id = l.val])
        ELSE BodyScan(ls, i + 1, st)
      ELSE IF (l.k # "blank" \/ Len(st.content) > 0) /\ l.k # "dir"
        THEN BodyScan(ls, i + 1, [st EXCEPT !.content = Append(@, LineText(l))])
      ELSE BodyScan(ls, i + 1, st)

NoSched == -1000    \* OrgDraft.scheduled is None

\* OrgParser.parse: the drafts of the line buffer ls, in file order
RECURSIVE ParseFrom(_, _)
ParseFrom(ls, i) ==
    IF i > Len(ls) THEN <<>>
    ELSE IF HeadlineMatch(ls[i]) THEN
      LET g  == HeadlineGroups(ls[i])
          st == BodyScan(ls, i + 1,
                   [scheduled |-> NoSched, platform |-> "twitter",
                    draft_id |-> NoneV, content |-> <<>>, inprop |-> FALSE,
                    next |-> i + 1])
          content == StripTrailing(st.content)
          d  == [headline |-> g.headline,
                 status |-> IF g.status # NoneV THEN g.status ELSE "TODO",
                 priority |-> g.priority,
                 scheduled |-> st.scheduled,
                 platform |-> st.platform,
                 draft_id |-> st.draft_id,
                 content |-> content,
                 line_number |-> i]
      IN (IF Len(content) > 0 THEN <<d>> ELSE <<>>) \o ParseFrom(ls, st.next)
    ELSE ParseFrom(ls, i + 1)

Parse(ls) == ParseFrom(ls, 1)

\* OrgDraft.is_pending / is_due
IsPending(d) == d.status = "TODO"
IsDue(d, t) == d.scheduled # NoSched /\ IsPending(d) /\ d.scheduled <= t

\* OrgDraftManager.list_drafts / get_pending / get_due / get_scheduled
ListDrafts(ls, status) ==
    LET ds == Parse(ls)
    IN IF status # NoneV THEN SelectSeq(ds, LAMBDA d : d.status = status) ELSE ds
GetPending(ls) == ListDrafts(ls, "TODO")
GetDue(ls, t) == SelectSeq(GetPending(ls), LAMBDA d : IsDue(d, t))
GetScheduled(ls, t) ==
    SelectSeq(GetPending(ls), LAMBDA d : d.scheduled # NoSched /\ d.scheduled > t)


\* status_report with "scheduled" counting every pending draft that is not
\* due, scheduled or not
StatusReportNotDue(ls, t) ==
    LET drafts == Parse(ls)
        pending == SelectSeq(drafts, LAMBDA d : d.status = "TODO")
    IN [total |-> Len(drafts),
        pending |-> Len(pending),
        done |-> Len(SelectSeq(drafts, LAMBDA d : d.status = "DONE")),
        due_now |-> Len(SelectSeq(pending, LAMBDA d : IsDue(d, t))),
        scheduled |-> Len(SelectSeq(pending, LAMBDA d : ~IsDue(d, t)))]

\* OrgDraftManager.status_report: the counts
StatusReport(ls, t) ==
    LET drafts == Parse(ls)
        pending == SelectSeq(drafts, LAMBDA d : d.status = "TODO")
    IN [total |-> Len(drafts),
        pending |-> Len(pending),
        done |-> Len(SelectSeq(drafts, LAMBDA d : d.status = "DONE")),
        due_now |-> Len(SelectSeq(pending, LAMBDA d : IsDue(d, t))),
        scheduled |-> Len(SelectSeq(pending,
                          LAMBDA d : d.scheduled # NoSched /\ ~IsDue(d, t)))]


(* ------------------------ draft file mutations ------------------------- *)
\* str.replace(old, new, 1) on the words of a line
RECURSIVE ReplaceFirst(_, _, _)
ReplaceFirst(w, old, new) ==
    IF Len(w) = 0 THEN w
    ELSE IF w[1] = old THEN <<new>> \o Tail(w)
    ELSE <<w[1]>> \o ReplaceFirst(Tail(w), old, new)

\* OrgParser.update_status: draft.status is never empty (parse defaults it to
\* TODO), so the replace branch is the one taken.
UpdateStatus(ls, draft, new_status) ==
    LET n == draft.line_number
    IN IF draft.status # ""
       THEN [ls EXCEPT ![n].w = ReplaceFirst(@, draft.status, new_status)]
       ELSE [ls EXCEPT ![n].w = <<new_status>> \o @]

InsertAt(ls, pos, l) == SubSeq(ls, 1, pos - 1) \o <<l>> \o SubSeq(ls, pos, Len(ls))

\* The while loop of OrgParser.add_property: what it finds scanning from i.
\* [found |-> "update", at |-> i], [found |-> "end", at |-> i] or "none".
RECURSIVE DrawerScan(_, _, _, _)
DrawerScan(ls, i, inprop, key) ==
    IF i > Len(ls) \/ StartsWithStar(ls[i]) THEN [found |-> "none", at |-> 0]
    ELSE IF ls[i].k = "pstart" THEN DrawerScan(ls, i + 1, TRUE, key)
    ELSE IF ls[i].k = "pend" THEN [found |-> "end", at |-> i]
    ELSE IF inprop /\ ls[i].k = "prop" /\ ls[i].key = key
         THEN [found |-> "update", at |-> i]
    ELSE DrawerScan(ls, i + 1, inprop, key)

\* OrgParser.add_property
AddProperty(ls, draft, key, val, t) ==
    LET r == DrawerScan(ls, draft.line_number + 1, FALSE, key)
    IN IF r.found = "update" THEN [ls EXCEPT ![r.at] = PropL(key, val, t)]
       ELSE IF r.found = "end" THEN InsertAt(ls, r.at, PropL(key, val, t))
       ELSE LET p0  == draft.line_number + 1
                pos == IF p0 <= Len(ls) /\ ls[p0].k = "sched" THEN p0 + 1 ELSE p0
            IN InsertAt(InsertAt(InsertAt(ls, pos, PStartL),
                                 pos + 1, PropL(key, val, t)),
                        pos + 2, PEndL)


(* ------------------------------ jobs ----------------------------------- *)
NoTime == -2000     \* job has no original_time / fluctuation_applied key

Truthy(v) == v # NoneV /\ v # ""

\* dict.pop(key, None) / the dict that is left
PopValue(kw, key) == IF key \in DOMAIN kw THEN kw[key] ELSE NoneV
Without(kw, keys) == [k \in (DOMAIN kw) \ keys |-> kw[k]]

\* add_human_fluctuation with the signs of early and late exchanged
FluctuationOffsetsSwapped(max_minutes, bias) ==
    IF bias = "early" THEN 0..max_minutes
    ELSE IF bias = "late" THEN {0 - d : d \in 0..max_minutes}
    ELSE (0 - max_minutes)..max_minutes

\* scheduler.add_human_fluctuation: the offsets random.randint can return
FluctuationOffsets(max_minutes, bias) ==
    IF bias = "early" THEN {0 - d : d \in 0..max_minutes}
    ELSE IF bias = "late" THEN 0..max_minutes
    ELSE (0 - max_minutes)..max_minutes

AddHumanFluctuation(dt, offset) == dt + offset

\* Calendar of the naive local datetimes the scheduler computes with.
\* Minute 0 of the clock is EpochYear-01-01 00:00.
EpochYear == 2024
DayMinutes == 1440

IsLeap(y) == (y % 4 = 0 /\ y % 100 # 0) \/ y % 400 = 0
DaysInMonth(y, m) ==
    IF m = 2 THEN (IF IsLeap(y) THEN 29 ELSE 28)
    ELSE IF m \in {4, 6, 9, 11} THEN 30
    ELSE 31

\* days from the epoch to y-01-01 and to y-m-01
DaysBeforeYear(y) ==
    (y - EpochYear) * 365 + Cardinality({k \in EpochYear..(y - 1) : IsLeap(k)})
DaysBeforeMonth(y, m) ==
    <<0, 31, 59, 90, 120, 151, 181, 212, 243, 273, 304, 334>>[m]
        + (IF m > 2 /\ IsLeap(y) THEN 1 ELSE 0)
DaysBefore(y, m) == DaysBeforeYear(y) + DaysBeforeMonth(y, m)

\* datetime fields of clock minute t, and the clock minute of a datetime
DateTimeOf(t) ==
    LET n == t \div DayMinutes
        y == CHOOSE k \in EpochYear..(EpochYear + n \div 365) :
                 DaysBeforeYear(k) <= n /\ n < DaysBeforeYear(k + 1)
        m == CHOOSE k \in 1..12 :
                 /\ DaysBefore(y, k) <= n
                 /\ n < DaysBefore(y, k) + DaysInMonth(y, k)
    IN [year |-> y, month |-> m, day |-> n - DaysBefore(y, m) + 1,
        hm |-> t % DayMinutes]
MinuteOf(dt) ==
    (DaysBefore(dt.year, dt.month) + dt.day - 1) * DayMinutes + dt.hm

\* scheduler.parse_schedule_time on the expression e at time t.
\*   [kind |-> "rel", num |-> TRUE, n |-> N, unit |-> u]   "+<N><u>"
\*   [kind |-> "abs", t |-> T]                             "YYYY-MM-DD HH:MM"
\*   [kind |-> "hm", t |-> M]            "HH:MM", M = 60 * HH + MM; strptime
\*                                       rejects M outside the day
\*   [kind |-> "bad"]                                      anything else
\* ok = FALSE stands for the ValueError.
RelExpr(n, unit) == [kind |-> "rel", num |-> TRUE, n |-> n, unit |-> unit, t |-> 0]
AbsExpr(t)       == [kind |-> "abs", num |-> TRUE, n |-> 0, unit |-> "", t |-> t]
HmExpr(m)        == [kind |-> "hm", num |-> TRUE, n |-> 0, unit |-> "", t |-> m]
BadExpr          == [kind |-> "bad", num |-> TRUE, n |-> 0, unit |-> "", t |-> 0]
BadAmountExpr    == [kind |-> "rel", num |-> FALSE, n |-> 0, unit |-> "m", t |-> 0]

\* the "HH:MM" branch: target.replace(year, month, day of now), then
\* target.replace(day=now.day + 1) when target <= now; replace raises
\* ValueError for a day the month does not have.  nowdt is datetime.now()
RollTimeOnly(m, t, nowdt) ==
    IF MinuteOf([nowdt EXCEPT !.hm = m]) <= t
    THEN IF nowdt.day + 1 > DaysInMonth(nowdt.year, nowdt.month)
         THEN [ok |-> FALSE, t |-> 0]
         ELSE [ok |-> TRUE, t |-> MinuteOf([nowdt EXCEPT !.hm = m, !.day = @ + 1])]
    ELSE [ok |-> TRUE, t |-> MinuteOf([nowdt EXCEPT !.hm = m])]
ParseTimeOnly(m, t) ==
    IF m \notin 0..(DayMinutes - 1) THEN [ok |-> FALSE, t |-> 0]
    ELSE RollTimeOnly(m, t, DateTimeOf(t))

\* parse_schedule_time that takes any unit other than h as minutes
ParseScheduleTimeAnyUnit(e, t) ==
    IF e.kind = "rel" THEN
        IF e.unit = "h" THEN [ok |-> TRUE, t |-> t + e.n * 60]
        ELSE [ok |-> TRUE, t |-> t + e.n]
    ELSE IF e.kind = "abs" THEN [ok |-> TRUE, t |-> e.t]
    ELSE IF e.kind = "hm" THEN ParseTimeOnly(e.t, t)
    ELSE [ok |-> FALSE, t |-> 0]

ParseScheduleTime(e, t) ==
    IF e.kind = "rel" THEN
        IF ~e.num THEN [ok |-> FALSE, t |-> 0]
        ELSE IF e.unit = "h" THEN [ok |-> TRUE, t |-> t + e.n * 60]
        ELSE IF e.unit = "m" THEN [ok |-> TRUE, t |-> t + e.n]
        ELSE [ok |-> FALSE, t |-> 0]
    ELSE IF e.kind = "abs" THEN [ok |-> TRUE, t |-> e.t]
    ELSE IF e.kind = "hm" THEN ParseTimeOnly(e.t, t)
    ELSE [ok |-> FALSE, t |-> 0]

\* scheduler.schedule_post after the parse: p is what parse_schedule_time
\* gave, id the fresh job id, offset the value random.randint returned
SchedulePostParsed(st, id, p, platform, text, fluctuation, offset, source_file, headline, kwargs) ==
    IF ~p.ok
    THEN [store |-> st, created |-> FALSE,
          res |-> [success |-> FALSE, job_id |-> 0, scheduled_for |-> NoTime,
                   original_time |-> NoTime, fluctuation_minutes |-> NoTime]]
    ELSE IF fluctuation > 0
    THEN [store |-> Append(st,
                      [id |-> id, platform |-> platform, text |-> text,
                       scheduled_for |-> AddHumanFluctuation(p.t, offset),
                       status |-> "pending", kwargs |-> kwargs,
                       source_file |-> source_file, headline |-> headline,
                       original_time |-> p.t,
                       fluctuation_applied |-> AddHumanFluctuation(p.t, offset) - p.t,
                       cancel_reason |-> NoneV, result |-> NoneV, error |-> NoneV]),
          created |-> TRUE,
          res |-> [success |-> TRUE, job_id |-> id,
                   scheduled_for |-> AddHumanFluctuation(p.t, offset),
                   original_time |-> p.t,
                   fluctuation_minutes |-> AddHumanFluctuation(p.t, offset) - p.t]]
    ELSE [store |-> Append(st,
                      [id |-> id, platform |-> platform, text |-> text,
                       scheduled_for |-> p.t,
                       status |-> "pending", kwargs |-> kwargs,
                       source_file |-> source_file, headline |-> headline,
                       original_time |-> NoTime, fluctuation_applied |-> NoTime,
                       cancel_reason |-> NoneV, result |-> NoneV, error |-> NoneV]),
          created |-> TRUE,
          res |-> [success |-> TRUE, job_id |-> id, scheduled_for |-> p.t,
                   original_time |-> NoTime, fluctuation_minutes |-> NoTime]]

\* the value a popped metadata key leaves on the job: set only if truthy
Popped(kwargs, key) ==
    IF Truthy(PopValue(kwargs, key)) THEN PopValue(kwargs, key) ELSE NoneV

\* scheduler.schedule_post against the persisted store st at time t
SchedulePostOn(st, id, t, platform, text, e, fluctuation, offset, kwargs) ==
    SchedulePostParsed(st, id, ParseScheduleTime(e, t), platform, text,
                       fluctuation, offset,
                       Popped(kwargs, "source_file"), Popped(kwargs, "headline"),
                       Without(kwargs, {"source_file", "headline"}))

\* scheduler._cancel_orphaned_jobs
CancelOrphanedJob(j) ==
    IF j.status = "pending" /\ Truthy(j.source_file) /\ ~Exists(j.source_file)
    THEN [j EXCEPT !.status = "cancelled", !.cancel_reason = "source_file_missing"]
    ELSE j
CancelOrphanedJobs(jobs) == SeqMap(CancelOrphanedJob, jobs)

\* sorted(jobs, key=scheduled_for): stable insertion sort
RECURSIVE InsertSorted(_, _)
InsertSorted(s, j) ==
    IF Len(s) = 0 THEN <<j>>
    ELSE IF s[Len(s)].scheduled_for <= j.scheduled_for THEN Append(s, j)
    ELSE Append(InsertSorted(SubSeq(s, 1, Len(s) - 1), j), s[Len(s)])
RECURSIVE SortedJobs(_)
SortedJobs(s) ==
    IF Len(s) = 0 THEN <<>>
    ELSE InsertSorted(SortedJobs(SubSeq(s, 1, Len(s) - 1)), s[Len(s)])

\* list_scheduled that returns the jobs in store order
ListResultUnsorted(jobs, full) ==
    IF full THEN jobs
    ELSE SelectSeq(jobs, LAMBDA j : j.status = "pending")

\* scheduler.list_scheduled: the returned list, given the swept jobs
ListResult(jobs, full) ==
    IF full THEN SortedJobs(jobs)
    ELSE SortedJobs(SelectSeq(jobs, LAMBDA j : j.status = "pending"))

\* scheduler.cancel_scheduled: index of the first job with this id, 0 if none
FirstWithId(jobs, id) ==
    IF \E i \in 1..Len(jobs) : jobs[i].id = id
    THEN CHOOSE i \in 1..Len(jobs) :
            jobs[i].id = id /\ \A k \in 1..(i - 1) : jobs[k].id # id
    ELSE 0

\* update_source_path that rewrites no job
UpdateSourceJobKeep(j, old, new) == j

\* scheduler.update_source_path, per job
UpdateSourceJob(j, old, new) ==
    IF j.source_file = old /\ j.status = "pending"
    THEN [j EXCEPT !.source_file = new] ELSE j


(* --------------------------- run_due_jobs ------------------------------ *)
\* get_client in run_due_jobs: the platforms it resolves
KnownPlatforms == {"twitter", "linkedin", "reddit", "youtube"}

\* keyword parameters of each client's post(text, ...)
ClientParams(platform) ==
    IF platform = "twitter" THEN {"reply_to", "quote_tweet_id", "media_ids"}
    ELSE IF platform = "linkedin" THEN {"visibility"}
    ELSE IF platform = "reddit" THEN {"subreddit", "title", "url", "flair_id"}
    ELSE IF platform = "youtube"
      THEN {"video_path", "title", "description", "tags", "category_id",
            "privacy_status", "thumbnail_path"}
    ELSE {}

\* what the platform call of a due job can do: "ok" (result.success true),
\* "fail" (result.success false), "exc" (the client raised)
Outcomes == {"ok", "fail", "exc"}

IsDueJob(j, t) == j.status = "pending" /\ j.scheduled_for <= t

\* client.post(job["text"], **kwargs) is entered: the platform resolves and
\* the call binds its arguments
ClientEntered(j) ==
    j.platform \in KnownPlatforms /\ DOMAIN j.kwargs \subseteq ClientParams(j.platform)

\* RunJob without the scheduled <= now test: every pending job is run
RunJobAnyTime(j, t, o) ==
    IF j.status # "pending" THEN [job |-> j, called |-> FALSE]
    ELSE IF o = "ok"
      THEN [job |-> [j EXCEPT !.status = "completed", !.result = "ok"],
            called |-> TRUE]
    ELSE [job |-> [j EXCEPT !.status = "failed", !.result = "fail"],
          called |-> TRUE]

\* loop body that leaves a job pending when the platform reports failure
RunJobRetry(j, t, o) ==
    IF j.status # "pending" THEN [job |-> j, called |-> FALSE]
    ELSE IF j.scheduled_for <= t THEN
        IF j.platform \notin KnownPlatforms
          THEN [job |-> [j EXCEPT !.status = "failed", !.error = "ValueError"],
                called |-> FALSE]
        ELSE IF ~(DOMAIN j.kwargs \subseteq ClientParams(j.platform))
          THEN [job |-> [j EXCEPT !.status = "failed", !.error = "TypeError"],
                called |-> FALSE]
        ELSE IF o = "ok"
          THEN [job |-> [j EXCEPT !.status = "completed", !.result = "ok"],
                called |-> TRUE]
        ELSE [job |-> j, called |-> TRUE]
    ELSE [job |-> j, called |-> FALSE]

\* body of the for loop of run_due_jobs for one job; o is the outcome of the
\* platform call if it is entered.  called tells whether client.post ran.
RunJob(j, t, o) ==
    IF j.status # "pending" THEN [job |-> j, called |-> FALSE]
    ELSE IF j.scheduled_for <= t THEN
        IF j.platform \notin KnownPlatforms
          THEN [job |-> [j EXCEPT !.status = "failed", !.error = "ValueError"],
                called |-> FALSE]
        ELSE IF ~(DOMAIN j.kwargs \subseteq ClientParams(j.platform))
          THEN [job |-> [j EXCEPT !.status = "failed", !.error = "TypeError"],
                called |-> FALSE]
        ELSE IF o = "ok"
          THEN [job |-> [j EXCEPT !.status = "completed", !.result = "ok"],
                called |-> TRUE]
        ELSE IF o = "fail"
          THEN [job |-> [j EXCEPT !.status = "failed", !.result = "fail"],
                called |-> TRUE]
        ELSE [job |-> [j EXCEPT !.status = "failed", !.error = "Exception"],
              called |-> TRUE]
    ELSE [job |-> j, called |-> FALSE]

\* the jobs list after the for loop; out maps job index to outcome
RunLoop(jobs, t, out) == [i \in 1..Len(jobs) |-> RunJob(jobs[i], t, out[i]).job]

\* ids of the jobs whose platform call ran in the loop
RunCalled(jobs, t, out) ==
    {jobs[i].id : i \in {k \in 1..Len(jobs) : RunJob(jobs[k], t, out[k]).called}}

\* completed_files: source files of the jobs that completed in this batch
CompletedFiles(before, after, t) ==
    {after[i].source_file : i \in {k \in 1..Len(before) :
        IsDueJob(before[k], t) /\ after[k].status = "completed"
        /\ Truthy(after[k].source_file)}}

\* AllDone that also takes a failed job as done
AllDoneOrFailed(jobs, source_file) ==
    \A i \in 1..Len(jobs) :
        jobs[i].source_file = source_file =>
            jobs[i].status \in {"completed", "cancelled", "failed"}

\* all(j.status in (completed, cancelled)) over the jobs of source_file
AllDone(jobs, source_file) ==
    \A i \in 1..Len(jobs) :
        jobs[i].source_file = source_file =>
            jobs[i].status \in {"completed", "cancelled"}

RewriteSource(jobs, old, new) ==
    [i \in 1..Len(jobs) |->
        IF jobs[i].source_file = old THEN [jobs[i] EXCEPT !.source_file = new]
        ELSE jobs[i]]


(* ------------------------------ sync ----------------------------------- *)
\* key of a job in file_jobs: j.get("headline", j.get("id"))
JobKey(j) ==
    IF j.headline # NoneV THEN [h |-> j.headline, id |-> 0]
    ELSE [h |-> NoneV, id |-> j.id]

\* indexes of the pending jobs of file fp
FileJobIdx(jobs, fp) ==
    {i \in 1..Len(jobs) : jobs[i].source_file = fp /\ jobs[i].status = "pending"}

\* a dict built by a comprehension keeps, per key, the position of the first
\* entry and the value of the last one
FirstOfKey(jobs, I) ==
    {i \in I : \A k \in I : JobKey(jobs[k]) = JobKey(jobs[i]) => i <= k}
LastOfKey(jobs, I, i) ==
    CHOOSE m \in I : /\ JobKey(jobs[m]) = JobKey(jobs[i])
                     /\ \A k \in I : JobKey(jobs[k]) = JobKey(jobs[i]) => k <= m

\* org_scheduled = {d.headline: d for d in get_scheduled()}
OrgFirst(ds) ==
    {i \in 1..Len(ds) : \A k \in 1..Len(ds) : ds[k].headline = ds[i].headline => i <= k}
OrgLast(ds, i) ==
    CHOOSE m \in 1..Len(ds) :
        /\ ds[m].headline = ds[i].headline
        /\ \A k \in 1..Len(ds) : ds[k].headline = ds[i].headline => k <= m
OrgHeadlines(ds) == {ds[i].headline : i \in 1..Len(ds)}

\* indexes (into jobs) of the jobs the cancel loop cancels, in dict order
SyncCancelIdx(jobs, fp, ds) ==
    LET I == FileJobIdx(jobs, fp)
        firsts == SortedSeq({i \in FirstOfKey(jobs, I) :
                                JobKey(jobs[i]).h \notin OrgHeadlines(ds)})
    IN [n \in 1..Len(firsts) |-> LastOfKey(jobs, I, firsts[n])]

\* add loop that schedules every draft of org_scheduled, without looking
\* at file_jobs
SyncAllDrafts(jobs, fp, ds) ==
    LET firsts == SortedSeq(OrgFirst(ds))
    IN [n \in 1..Len(firsts) |-> ds[OrgLast(ds, firsts[n])]]

\* drafts (values of org_scheduled) the add loop schedules, in dict order
SyncNewDrafts(jobs, fp, ds) ==
    LET I == FileJobIdx(jobs, fp)
        keys == {JobKey(jobs[i]) : i \in I}
        firsts == SortedSeq({i \in OrgFirst(ds) :
                                [h |-> ds[i].headline, id |-> 0] \notin keys})
    IN [n \in 1..Len(firsts) |-> ds[OrgLast(ds, firsts[n])]]

SyncUnchanged(jobs, fp, ds) ==
    LET I == FileJobIdx(jobs, fp)
        keys == {JobKey(jobs[i]) : i \in I}
        firsts == SortedSeq({i \in OrgFirst(ds) :
                                [h |-> ds[i].headline, id |-> 0] \in keys})
    IN [n \in 1..Len(firsts) |-> ds[firsts[n]].headline]

\* the schedule_post calls of the add loop, one after another on the
\* persisted store; offs[n] is the random offset of the n-th call
RECURSIVE SyncAdd(_, _, _, _, _, _, _, _)
SyncAdd(st, id, t, fp, new, n, fluctuation, offs) ==
    IF n > Len(new) THEN st
    ELSE LET d == new[n]
             r == SchedulePostOn(st, id, t, d.platform, d.content,
                                 AbsExpr(d.scheduled), fluctuation, offs[n],
                                 [source_file |-> fp, headline |-> d.headline,
                                  draft_id |-> d.draft_id])
         IN SyncAdd(r.store, id + 1, t, fp, new, n + 1, fluctuation, offs)

\* OrgDraftManager.sync_with_scheduler on file fp with line buffer ls
SyncOn(st, id, t, ls, fp, fluctuation, offs) ==
    LET ds == GetScheduled(ls, t)
        jobs == st                                  \* jobs = _load_schedule()
        cidx == SyncCancelIdx(jobs, fp, ds)
        mem == [i \in 1..Len(jobs) |->
                   IF i \in Range(cidx) THEN [jobs[i] EXCEPT !.status = "cancelled"]
                   ELSE jobs[i]]
        new == SyncNewDrafts(jobs, fp, ds)
        disk == SyncAdd(st, id, t, fp, new, 1, fluctuation, offs)
    IN [store |-> IF Len(cidx) > 0 THEN mem ELSE disk,    \* _save_schedule(jobs)
        nextId |-> id + Len(new),
        persisted |-> disk,                  \* as the schedule_post calls left it
        added |-> [n \in 1..Len(new) |-> new[n].headline],
        cancelled |-> [n \in 1..Len(cidx) |-> jobs[cidx[n]].id],
        unchanged |-> SyncUnchanged(jobs, fp, ds)]


(* --------------------------- draft manager ----------------------------- *)
\* platforms post_draft wires a client for
PostPlatforms == {"twitter", "linkedin", "reddit"}

\* results a client can hand to post_draft: success with id and url, success
\* with neither, failure
PostResults ==
    {[success |-> TRUE, id |-> TRUE, url |-> TRUE],
     [success |-> TRUE, id |-> FALSE, url |-> FALSE],
     [success |-> FALSE, id |-> FALSE, url |-> FALSE]}

\* OrgDraftManager.post_draft (dry_run false) on the parser's line buffer ls:
\* the buffer after the call, for client result r at time t
PostDraftLines(ls, draft, r, t) ==
    IF draft.platform \notin PostPlatforms \/ ~r.success THEN ls
    ELSE LET l1 == UpdateStatus(ls, draft, "DONE")
             l2 == AddProperty(l1, draft, "POSTED_AT", "isoformat", t)
             l3 == IF r.id THEN AddProperty(l2, draft, "POST_ID", "id", 0) ELSE l2
             l4 == IF r.url THEN AddProperty(l3, draft, "POST_URL", "url", 0) ELSE l3
         IN l4

\* the result post_draft returns
PostDraftResult(draft, r) ==
    IF draft.platform \notin PostPlatforms
    THEN [headline |-> draft.headline, success |-> FALSE, id |-> FALSE,
          url |-> FALSE, called |-> FALSE]
    ELSE [headline |-> draft.headline, success |-> r.success, id |-> r.id,
          url |-> r.url, called |-> TRUE]

\* OrgDraftManager.post_due (dry_run false): the drafts ds come from one
\* get_due() call and are posted one after another on the same parser
RECURSIVE PostDueLines(_, _, _, _, _)
PostDueLines(ls, ds, n, rs, t) ==
    IF n > Len(ds) THEN ls
    ELSE PostDueLines(PostDraftLines(ls, ds[n], rs[n], t), ds, n + 1, rs, t)

\* OrgDraftManager.schedule_draft calls of schedule_all, one after another
RECURSIVE ScheduleDrafts(_, _, _, _, _, _, _, _)
ScheduleDrafts(st, id, t, fp, ds, n, fluctuation, offs) ==
    IF n > Len(ds) THEN st
    ELSE LET d == ds[n]
             r == SchedulePostOn(st, id, t, d.platform, d.content,
                                 AbsExpr(d.scheduled), fluctuation, offs[n],
                                 [source_file |-> fp, headline |-> d.headline])
         IN ScheduleDrafts(r.store, id + 1, t, fp, ds, n + 1, fluctuation, offs)


(* ------------------------------ inputs --------------------------------- *)
StageDirs == {"drafts", "scheduled", "posted"}
Biases == {"none", "early", "late"}

\* draft files the behaviours start from
File0 ==
    << HeadL(1, <<"Posts">>),
       HeadL(2, <<"TODO", "A">>), SchedL(2),
       PStartL, PropL("ID", "a1", 0), PEndL, TextL(<<"a">>) >>
File1 ==
    << HeadL(1, <<"Posts">>),
       HeadL(2, <<"TODO", "A">>), SchedL(1), TextL(<<"a">>),
       HeadL(2, <<"TODO", "B">>), SchedL(2),
       PStartL, PropL("ID", "b1", 0), PEndL, TextL(<<"b">>) >>
File2 ==
    << HeadL(2, <<"A">>), SchedL(2), TextL(<<"a">>),
       HeadL(2, <<"DONE", "C">>), BlankL, TextL(<<"c">>) >>
InitFiles == {File1, File2}

\* headings a human edit can give a draft: rename it, mark it done
EditWords == {<<"TODO", "D">>, <<"DONE", "A">>}

\* direct schedule_post calls (CLI / API)
Call(platform, e, fluctuation, bias, kwargs) ==
    [platform |-> platform, e |-> e, fluctuation |-> fluctuation,
     bias |-> bias, kwargs |-> kwargs]
DirectCalls ==
    { Call("twitter", AbsExpr(1), 0, "none", <<>>),
      Call("mastodon", RelExpr(1, "m"), 0, "none", <<>>),
      Call("twitter", BadExpr, 0, "none", <<>>),
      Call("twitter", AbsExpr(2), 0, "none", [source_file |-> "drafts/f.org"]) }

Offsets(n, fluctuation, bias) ==
    IF fluctuation > 0 THEN [1..n -> FluctuationOffsets(fluctuation, bias)]
    ELSE {[i \in 1..n |-> 0]}

(* --------------------- operations as functions ------------------------- *)
Ids(jobs) == {jobs[i].id : i \in 1..Len(jobs)}
JobWithId(jobs, id) == jobs[FirstWithId(jobs, id)]

\* scheduler.list_scheduled on the persisted store st
ListScheduledOn(st, full) ==
    LET jobs == CancelOrphanedJobs(st)
    IN [store |-> jobs, res |-> ListResult(jobs, full)]

\* cancel_scheduled that reports success without saving the change
CancelScheduledNoSave(st, id) ==
    [store |-> st, success |-> FirstWithId(st, id) > 0, error |-> NoneV]

\* cancel_scheduled that reports success when no job has the id
CancelScheduledAlways(st, id) ==
    LET i == FirstWithId(st, id)
    IN IF i > 0
       THEN [store |-> [st EXCEPT ![i].status = "cancelled"], success |-> TRUE,
             error |-> NoneV]
       ELSE [store |-> st, success |-> TRUE, error |-> NoneV]

\* scheduler.cancel_scheduled
CancelScheduledOn(st, id) ==
    LET i == FirstWithId(st, id)
    IN IF i > 0
       THEN [store |-> [st EXCEPT ![i].status = "cancelled"], success |-> TRUE,
             error |-> NoneV]
       ELSE [store |-> st, success |-> FALSE, error |-> "Job not found"]

\* scheduler.update_source_path
UpdateSourcePathOn(st, old, new) ==
    [store |-> [i \in 1..Len(st) |-> UpdateSourceJob(st[i], old, new)],
     updated |-> Cardinality({i \in 1..Len(st) :
                    st[i].source_file = old /\ st[i].status = "pending"})]

\* outcome functions run_due_jobs can meet on the jobs st at time t: only
\* the calls that are entered have an outcome to choose
RunOutcomes(st, t) ==
    {out \in [1..Len(st) -> Outcomes] :
        \A i \in 1..Len(st) :
            ~(IsDueJob(st[i], t) /\ ClientEntered(st[i])) => out[i] = "ok"}

\* scheduler.run_due_jobs on the persisted store st at time t, the draft
\* file being in directory fd; out[i] is what the platform call of job i
\* does, mv what shutil.move does ("ok" or "raise")
RunDueJobsOn(st, t, fd, out, mv) ==
    LET after == RunLoop(st, t, out)
        fp == PathOf(fd)
        target == FindTargetDir(fd, "posted")
        moves == /\ fd # "gone"
                 /\ fp \in CompletedFiles(st, after, t)
                 /\ AllDone(after, fp)
                 /\ target # NoneV
                 /\ target # fd
        moved == moves /\ mv = "ok"
    IN [store |-> IF moved THEN RewriteSource(after, fp, PathOf(target)) ELSE after,
        fileDir |-> IF moved THEN target ELSE fd,
        moves |-> moves,
        raised |-> (moves /\ mv = "raise"),
        called |-> RunCalled(st, t, out)]

\* OrgDraftManager.schedule_all (dry_run false) for the file in directory fd
ScheduleAllOn(st, id, t, ls, fd, fluctuation, offs, auto_move, mv) ==
    LET fp == PathOf(fd)
        ds == GetScheduled(ls, t)
        target == FindTargetDir(fd, "scheduled")
        moves == /\ auto_move /\ Len(ds) > 0
                 /\ target # NoneV /\ target # fd
        moved == moves /\ mv = "ok"
        sched == ScheduleDrafts(st, id, t, fp, ds, 1, fluctuation, offs)
    IN [store |-> IF moved
                  THEN UpdateSourcePathOn(sched, fp, PathOf(target)).store
                  ELSE sched,
        nextId |-> id + Len(ds),
        fileDir |-> IF moved THEN target ELSE fd,
        moves |-> moves,
        raised |-> (moves /\ mv = "raise"),
        headlines |-> [n \in 1..Len(ds) |-> ds[n].headline]]

(* ------------------------------ state ---------------------------------- *)
NoHistory == [cancelled |-> {}, calls |-> [i \in 1..MaxJobs |-> 0]]

\* no daemon process is running
NoDaemon == [pc |-> "off", jobs |-> <<>>, at |-> 0]

\* no parse result is held
NotParsed == [done |-> FALSE, drafts |-> <<>>]

Init ==
    /\ store = <<>>
    /\ nextId = 1
    /\ now = 0
    /\ lines = File0
    /\ fileDir = "drafts"
    /\ dirs \in {{"drafts"}, StageDirs}
    /\ hist = NoHistory
    /\ storeFile = "array"
    /\ daemon = NoDaemon
    /\ lastParse = NotParsed

\* the clock advances
Tick ==
    /\ now < MaxTime
    /\ now' = now + 1
    /\ UNCHANGED <<store, nextId, lines, fileDir, dirs, hist, storeFile, daemon, lastParse>>

\* scheduler.schedule_post called directly
SchedulePost(Calls) ==
    \E c \in Calls :
    \E off \in FluctuationOffsets(c.fluctuation, c.bias) :
      LET r == SchedulePostOn(store, nextId, now, c.platform, <<"hello">>, c.e,
                              c.fluctuation, off, c.kwargs)
      IN /\ r.created => nextId <= MaxJobs
         /\ store' = r.store
         /\ nextId' = IF r.created THEN nextId + 1 ELSE nextId
         /\ UNCHANGED <<now, lines, fileDir, dirs, hist, storeFile, daemon, lastParse>>

\* scheduler.list_scheduled
ListScheduled ==
    \E full \in BOOLEAN :
      /\ store' = ListScheduledOn(store, full).store
      /\ UNCHANGED <<nextId, now, lines, fileDir, dirs, hist, storeFile, daemon, lastParse>>

\* scheduler.cancel_scheduled
CancelScheduled ==
    \E id \in 1..MaxJobs :
      /\ store' = CancelScheduledOn(store, id).store
      /\ hist' = IF id \in Ids(store) /\ JobWithId(store, id).status = "pending"
                 THEN [hist EXCEPT !.cancelled = @ \cup {id}] ELSE hist
      /\ UNCHANGED <<nextId, now, lines, fileDir, dirs, storeFile, daemon, lastParse>>

\* scheduler.update_source_path
UpdateSourcePath ==
    \E old \in {PathOf(d) : d \in {"drafts", "scheduled"}} :
    \E new \in {PathOf(d) : d \in {"drafts", "scheduled"}} \ {old} :
      /\ store' = UpdateSourcePathOn(store, old, new).store
      /\ UNCHANGED <<nextId, now, lines, fileDir, dirs, hist, storeFile, daemon, lastParse>>

\* scheduler.run_due_jobs
RunDueJobs ==
    \E out \in RunOutcomes(store, now) :
    \E mv \in {"ok", "raise"} :
      LET r == RunDueJobsOn(store, now, fileDir, out, mv)
      IN /\ ~r.moves => mv = "ok"
         /\ store' = r.store
         /\ fileDir' = r.fileDir
         /\ hist' = [hist EXCEPT !.calls =
                        [id \in DOMAIN @ |->
                            IF id \in r.called THEN @[id] + 1 ELSE @[id]]]
         /\ UNCHANGED <<nextId, now, lines, dirs, storeFile, daemon, lastParse>>

\* OrgDraftManager(file).sync_with_scheduler
Sync(Fl) ==
    /\ fileDir # "gone"
    /\ \E fluctuation \in Fl : \E bias \in Biases :
       LET fp == PathOf(fileDir)
           new == SyncNewDrafts(store, fp, GetScheduled(lines, now))
       IN /\ nextId + Len(new) - 1 <= MaxJobs
          /\ fluctuation = 0 => bias = "none"
          /\ \E offs \in Offsets(Len(new), fluctuation, bias) :
             LET r == SyncOn(store, nextId, now, lines, fp, fluctuation, offs)
             IN /\ store' = r.store
                /\ nextId' = r.nextId
    /\ UNCHANGED <<now, lines, fileDir, dirs, hist, storeFile, daemon, lastParse>>

\* OrgDraftManager(file).schedule_all; a dry run changes nothing
ScheduleAll(Fl) ==
    /\ fileDir # "gone"
    /\ \E dry_run \in BOOLEAN, auto_move \in BOOLEAN :
       \E fluctuation \in Fl : \E bias \in Biases :
       \E mv \in {"ok", "raise"} :
       LET ds == GetScheduled(lines, now) IN
       /\ ~dry_run => nextId + Len(ds) - 1 <= MaxJobs
       /\ fluctuation = 0 => bias = "none"
       /\ \E offs \in Offsets(Len(ds), fluctuation, bias) :
          LET r == ScheduleAllOn(store, nextId, now, lines, fileDir,
                                 fluctuation, offs, auto_move, mv)
          IN /\ ~r.moves \/ dry_run => mv = "ok"
             /\ store' = IF dry_run THEN store ELSE r.store
             /\ nextId' = IF dry_run THEN nextId ELSE r.nextId
             /\ fileDir' = IF dry_run THEN fileDir ELSE r.fileDir
    /\ UNCHANGED <<now, lines, dirs, hist, storeFile, daemon, lastParse>>

\* CLI "org post" / OrgDraftManager.post_due: one batch of post_draft calls
\* on the drafts of one get_pending() (all) or get_due() call
PostBatch ==
    /\ fileDir # "gone"
    /\ \E all \in BOOLEAN, dry_run \in BOOLEAN :
       LET ds == IF all THEN GetPending(lines) ELSE GetDue(lines, now)
       IN /\ Len(ds) > 0
          /\ Len(lines) <= MaxLines
          /\ \E rs \in [1..Len(ds) -> PostResults] :
             lines' = IF dry_run THEN lines
                      ELSE PostDueLines(lines, ds, 1, rs, now)
    /\ UNCHANGED <<store, nextId, now, fileDir, dirs, hist, storeFile, daemon, lastParse>>

\* a human edits a draft heading in the file
HumanEdit(Words) ==
    /\ fileDir # "gone"
    /\ \E i \in 1..Len(lines) : \E w \in Words :
         /\ HeadlineMatch(lines[i])
         /\ lines' = [lines EXCEPT ![i].w = w]
    /\ UNCHANGED <<store, nextId, now, fileDir, dirs, hist, storeFile, daemon, lastParse>>

\* a human deletes the draft file
DeleteFile ==
    /\ fileDir # "gone"
    /\ fileDir' = "gone"
    /\ lines' = <<>>
    /\ UNCHANGED <<store, nextId, now, dirs, hist, storeFile, daemon, lastParse>>

Next ==
    \/ Tick
    \/ SchedulePost(DirectCalls)
    \/ ListScheduled
    \/ CancelScheduled
    \/ UpdateSourcePath
    \/ RunDueJobs
    \/ Sync({0})
    \/ ScheduleAll({0})
    \/ HumanEdit(EditWords)
    \/ DeleteFile

Spec == Init /\ [][Next]_vars

\* posting drafts straight from the file (CLI "org post")
InitPost ==
    /\ store = <<>>
    /\ nextId = 1
    /\ now = 0
    /\ lines \in InitFiles
    /\ fileDir = "drafts"
    /\ dirs = StageDirs
    /\ hist = NoHistory
    /\ storeFile = "array"
    /\ daemon = NoDaemon
    /\ lastParse = NotParsed

NextPost ==
    \/ Tick
    \/ PostBatch
    \/ HumanEdit(EditWords)

SpecPost == InitPost /\ [][NextPost]_vars

\* "HH:MM" scheduling around midnight, on ordinary days and on the last
\* days of months and years
ClockSpan == 3          \* minutes the clock runs on from a start
TimesOfDay == {0, 600, DayMinutes - 1}          \* 00:00, 10:00, 23:59
ClockStartDates ==
    {[year |-> 2024, month |-> 1, day |-> 15], [year |-> 2024, month |-> 1, day |-> 30],
     [year |-> 2024, month |-> 1, day |-> 31], [year |-> 2024, month |-> 2, day |-> 28],
     [year |-> 2024, month |-> 2, day |-> 29], [year |-> 2024, month |-> 12, day |-> 31],
     [year |-> 2025, month |-> 2, day |-> 28], [year |-> 2025, month |-> 4, day |-> 30]}
ClockStarts ==
    {MinuteOf([year |-> d.year, month |-> d.month, day |-> d.day,
               hm |-> DayMinutes - 2]) : d \in ClockStartDates}
TimeOnlyCalls == {Call("twitter", HmExpr(m), 0, "none", <<>>) : m \in TimesOfDay}

InitClock ==
    /\ store = <<>>
    /\ nextId = 1
    /\ now \in ClockStarts
    /\ lines = File0
    /\ fileDir = "drafts"
    /\ dirs = StageDirs
    /\ hist = NoHistory
    /\ storeFile = "array"
    /\ daemon = NoDaemon
    /\ lastParse = NotParsed

TickClock ==
    /\ \E s \in ClockStarts : s <= now /\ now < s + ClockSpan
    /\ now' = now + 1
    /\ UNCHANGED <<store, nextId, lines, fileDir, dirs, hist, storeFile, daemon, lastParse>>

NextClock ==
    \/ TickClock
    \/ SchedulePost(TimeOnlyCalls)

SpecClock == InitClock /\ [][NextClock]_vars

\* scheduling with human-like fluctuation
MaxFluct == 2           \* largest fluctuation a call asks for, minutes
FluctCalls ==
    {Call("twitter", AbsExpr(1), fl, b, <<>>) : fl \in 0..MaxFluct, b \in Biases}

NextFluct ==
    \/ Tick
    \/ SchedulePost(FluctCalls)
    \/ Sync({1})
    \/ ScheduleAll({1})

SpecFluct == Init /\ [][NextFluct]_vars

\* ---- a store file that is missing or does not hold a job array ----
\* contents of scheduled.json: a JSON array of jobs (the variable store),
\* no file, text that is not JSON, the JSON values {} and null, an array
\* of numbers
StoreFileKinds == {"array", "absent", "notjson", "object", "null", "numbers"}

\* _ensure_schedule_file: a missing file is created holding "[]"
EnsureScheduleFile(f) == IF f = "absent" THEN "array" ELSE f

\* _load_schedule: the kind of Python value it returns; JSONDecodeError
\* gives the empty list
LoadKind(f) ==
    IF f \in {"array", "absent", "notjson"} THEN "list"
    ELSE IF f = "object" THEN "dict"
    ELSE IF f = "null" THEN "none"
    ELSE "intlist"

\* "for job in jobs" with job.get / job[...]: TypeError on None,
\* AttributeError or TypeError on an element that is no dict
IterRaises(k) == k \in {"none", "intlist"}
\* jobs.append(job): AttributeError on a dict and on None
AppendRaises(k) == k \in {"dict", "none"}
\* what the file holds after _save_schedule of a value of kind k
SavedKind(k) ==
    IF k = "list" THEN "array"
    ELSE IF k = "dict" THEN "object"
    ELSE IF k = "none" THEN "null"
    ELSE "numbers"

StoreOps == {"list", "cancel", "update", "run", "schedule", "sync"}

\* a store operation on a file f that holds no job array: whether it raises
\* and, if not, the file and the jobs it leaves.  c is the schedule_post
\* call, ls and fp the draft file of the sync
OnCorruptStore(op, f, id, t, c, ls, fp) ==
    IF op \in {"list", "cancel", "update"}
    THEN [raised |-> IterRaises(LoadKind(f)),
          storeFile |-> EnsureScheduleFile(f), store |-> <<>>, created |-> 0]
    ELSE IF op = "run"
    THEN [raised |-> IterRaises(LoadKind(f)),
          storeFile |-> SavedKind(LoadKind(f)), store |-> <<>>, created |-> 0]
    ELSE IF op = "schedule"
    THEN IF ~ParseScheduleTime(c.e, t).ok
         THEN [raised |-> FALSE, storeFile |-> f, store |-> <<>>, created |-> 0]
         ELSE [raised |-> AppendRaises(LoadKind(f)),
               storeFile |-> SavedKind(LoadKind(f)),
               store |-> SchedulePostOn(<<>>, id, t, c.platform, <<"hello">>,
                                        c.e, 0, 0, c.kwargs).store,
               created |-> 1]
    ELSE [raised |-> \/ IterRaises(LoadKind(f))
                     \/ /\ AppendRaises(LoadKind(f))
                        /\ Len(GetScheduled(ls, t)) > 0,
          storeFile |-> IF Len(GetScheduled(ls, t)) > 0
                        THEN SavedKind(LoadKind(f)) ELSE EnsureScheduleFile(f),
          store |-> SyncOn(<<>>, id, t, ls, fp, 0,
                           [n \in 1..Len(GetScheduled(ls, t)) |-> 0]).store,
          created |-> Len(GetScheduled(ls, t))]

\* a store operation called while the file holds no job array; a call that
\* raises leaves everything as it was
CorruptStoreOp ==
    /\ storeFile # "array"
    /\ store = <<>>
    /\ fileDir # "gone"
    /\ \E op \in StoreOps : \E c \in DirectCalls :
         /\ ~OnCorruptStore(op, storeFile, nextId, now, c, lines, PathOf(fileDir)).raised
         /\ nextId + OnCorruptStore(op, storeFile, nextId, now, c, lines,
                                    PathOf(fileDir)).created - 1 <= MaxJobs
         /\ store' = OnCorruptStore(op, storeFile, nextId, now, c, lines,
                                    PathOf(fileDir)).store
         /\ storeFile' = OnCorruptStore(op, storeFile, nextId, now, c, lines,
                                        PathOf(fileDir)).storeFile
         /\ nextId' = nextId + OnCorruptStore(op, storeFile, nextId, now, c, lines,
                                              PathOf(fileDir)).created
    /\ UNCHANGED <<now, lines, fileDir, dirs, hist, daemon, lastParse>>

InitCorrupt ==
    /\ store = <<>>
    /\ nextId = 1
    /\ now = 0
    /\ lines = File0
    /\ fileDir = "drafts"
    /\ dirs = StageDirs
    /\ hist = NoHistory
    /\ storeFile \in StoreFileKinds \ {"array"}
    /\ daemon = NoDaemon
    /\ lastParse = NotParsed

NextCorrupt ==
    \/ Tick
    \/ CorruptStoreOp
    \/ (storeFile = "array" /\ SchedulePost(DirectCalls))
    \/ (storeFile = "array" /\ ListScheduled)
    \/ (storeFile = "array" /\ CancelScheduled)
    \/ (storeFile = "array" /\ RunDueJobs)

SpecCorrupt == InitCorrupt /\ [][NextCorrupt]_vars

\* ---- run_due_jobs of a daemon process, other processes in between ----
\* jobs = _load_schedule(); now = datetime.now()
DaemonLoad ==
    /\ daemon.pc = "off"
    /\ daemon' = [pc |-> "loaded", jobs |-> store, at |-> now]
    /\ UNCHANGED <<store, nextId, now, lines, fileDir, dirs, hist, storeFile, lastParse>>

\* the loop over the loaded jobs, _save_schedule(jobs) and the move of the
\* completed source file
DaemonSave ==
    /\ daemon.pc = "loaded"
    /\ \E out \in RunOutcomes(daemon.jobs, daemon.at) :
       \E mv \in {"ok", "raise"} :
         LET r == RunDueJobsOn(daemon.jobs, daemon.at, fileDir, out, mv)
         IN /\ ~r.moves => mv = "ok"
            /\ store' = r.store
            /\ fileDir' = r.fileDir
            /\ hist' = [hist EXCEPT !.calls =
                           [id \in DOMAIN @ |->
                               IF id \in r.called THEN @[id] + 1 ELSE @[id]]]
    /\ daemon' = NoDaemon
    /\ UNCHANGED <<nextId, now, lines, dirs, storeFile, lastParse>>

NextRace ==
    \/ Tick
    \/ SchedulePost(DirectCalls)
    \/ CancelScheduled
    \/ RunDueJobs
    \/ Sync({0})
    \/ DaemonLoad
    \/ DaemonSave

InitRace == Init /\ dirs = StageDirs

SpecRace == InitRace /\ [][NextRace]_vars

\* ---- the dry_run argument ----
\* post_draft that posts although dry_run is set
PostDraftAlways(ls, draft, r, t, dry_run) ==
    [lines |-> PostDraftLines(ls, draft, r, t),
     called |-> PostDraftResult(draft, r).called]

\* OrgDraftManager.post_draft(draft, dry_run): the lines of the file after
\* it and whether client.post was called
PostDraftOn(ls, draft, r, t, dry_run) ==
    IF dry_run THEN [lines |-> ls, called |-> FALSE]
    ELSE [lines |-> PostDraftLines(ls, draft, r, t),
          called |-> PostDraftResult(draft, r).called]

\* OrgDraftManager.schedule_all(dry_run, auto_move) with no fluctuation: the
\* store and the directory of the file after it
ScheduleAllRun(st, id, t, ls, fd, dry_run, auto_move, mv) ==
    IF dry_run \/ Len(GetScheduled(ls, t)) = 0
    THEN [store |-> st, nextId |-> id, fileDir |-> fd, lines |-> ls]
    ELSE [store |-> ScheduleAllOn(st, id, t, ls, fd, 0,
                        [n \in 1..Len(GetScheduled(ls, t)) |-> 0], auto_move, mv).store,
          nextId |-> id + Len(GetScheduled(ls, t)),
          fileDir |-> ScheduleAllOn(st, id, t, ls, fd, 0,
                        [n \in 1..Len(GetScheduled(ls, t)) |-> 0], auto_move, mv).fileDir,
          lines |-> ls]

\* ---- both delivery paths on one file: the scheduler and post_due ----
NextBoth ==
    \/ Tick
    \/ ScheduleAll({0})
    \/ RunDueJobs
    \/ PostBatch

SpecBoth == InitPost /\ [][NextBoth]_vars

\* ---- scheduling the drafts of a file that nobody edits ----
NextDrafts ==
    \/ Tick
    \/ ScheduleAll({0})
    \/ Sync({0})
    \/ CancelScheduled

SpecDrafts == InitPost /\ [][NextDrafts]_vars

\* ---- run_daemon: run_due_jobs, sleep, repeat ----
\* results = run_due_jobs() inside the while loop; an exception that
\* run_due_jobs lets out is not caught by run_daemon and ends the process
DaemonCycle ==
    /\ daemon.pc = "running"
    /\ \E out \in RunOutcomes(store, now) :
       \E mv \in {"ok", "raise"} :
         LET r == RunDueJobsOn(store, now, fileDir, out, mv)
         IN /\ ~r.moves => mv = "ok"
            /\ store' = r.store
            /\ fileDir' = r.fileDir
            /\ hist' = [hist EXCEPT !.calls =
                           [id \in DOMAIN @ |->
                               IF id \in r.called THEN @[id] + 1 ELSE @[id]]]
            /\ daemon' = [daemon EXCEPT !.pc = IF r.raised THEN "crashed"
                                               ELSE "sleeping",
                                        !.at = now]
    /\ UNCHANGED <<nextId, now, lines, dirs, storeFile, lastParse>>

\* time.sleep(interval) returns
DaemonWake ==
    /\ daemon.pc = "sleeping"
    /\ daemon' = [daemon EXCEPT !.pc = "running"]
    /\ UNCHANGED <<store, nextId, now, lines, fileDir, dirs, hist, storeFile, lastParse>>

\* KeyboardInterrupt: "Daemon stopped"
DaemonInterrupt ==
    /\ daemon.pc \in {"running", "sleeping"}
    /\ daemon' = [daemon EXCEPT !.pc = "stopped"]
    /\ UNCHANGED <<store, nextId, now, lines, fileDir, dirs, hist, storeFile, lastParse>>

InitDaemon ==
    /\ store = <<>>
    /\ nextId = 1
    /\ now = 0
    /\ lines = File0
    /\ fileDir = "drafts"
    /\ dirs = StageDirs
    /\ hist = NoHistory
    /\ storeFile = "array"
    /\ daemon = [NoDaemon EXCEPT !.pc = "running"]
    /\ lastParse = NotParsed

NextDaemon ==
    \/ Tick
    \/ SchedulePost(DirectCalls)
    \/ CancelScheduled
    \/ DaemonCycle
    \/ DaemonWake
    \/ DaemonInterrupt

\* the loop never blocks: the platform calls return and sleep ends
SpecDaemon ==
    InitDaemon /\ [][NextDaemon]_vars /\ WF_vars(DaemonCycle) /\ WF_vars(DaemonWake)

\* ---- OrgParser.parse on any short file ----
MaxParseLen == 5        \* lines of a parsed file

\* the kinds of line a file is made of
ParseLines ==
    {HeadL(1, <<"Posts">>), HeadL(2, <<"TODO", "A">>), SchedL(1), PStartL, PEndL,
     PropL("ID", "a1", 0), DirL, BlankL, TextL(<<"a">>)}

\* OrgParser.__init__: the lines of the file that is read
ParseInputs == UNION {[1..n -> ParseLines] : n \in 1..MaxParseLen}

InitParse ==
    /\ store = <<>>
    /\ nextId = 1
    /\ now = 0
    /\ lines \in ParseInputs
    /\ fileDir = "drafts"
    /\ dirs = StageDirs
    /\ hist = NoHistory
    /\ storeFile = "array"
    /\ daemon = NoDaemon
    /\ lastParse = NotParsed

\* drafts = parser.parse()
ParseFile ==
    /\ ~lastParse.done
    /\ lastParse' = [done |-> TRUE, drafts |-> Parse(lines)]
    /\ UNCHANGED <<store, nextId, now, lines, fileDir, dirs, hist, storeFile, daemon>>

NextParse == ParseFile

SpecParse == InitParse /\ [][NextParse]_vars

(* ------------------------------ claims --------------------------------- *)
Terminal == {"completed", "cancelled", "failed"}
MoveResults == {"ok", "raise"}

\* C1: run_due_jobs, when it returns, has called the platform client only
\* for jobs that were pending with scheduled_for <= now; every such job is
\* completed or failed afterwards; the pending jobs that were not due are
\* left exactly as they were.
C1_RunDueOnlyDue ==
    \A out \in RunOutcomes(store, now) : \A mv \in MoveResults :
      LET r == RunDueJobsOn(store, now, fileDir, out, mv)
      IN ~r.raised =>
           /\ Len(r.store) = Len(store)
           /\ \A id \in r.called :
                /\ id \in Ids(store)
                /\ JobWithId(store, id).status = "pending"
                /\ JobWithId(store, id).scheduled_for <= now
           /\ \A i \in 1..Len(store) :
                /\ (store[i].status = "pending" /\ store[i].scheduled_for <= now)
                      => r.store[i].status \in {"completed", "failed"}
                /\ (store[i].status = "pending" /\ store[i].scheduled_for > now)
                      => r.store[i] = store[i]
                /\ store[i].status # "pending"
                      => r.store[i].status = store[i].status

\* a batch has run: one job was posted and completed while another one,
\* scheduled later, is still pending
C1_Witness ==
    \E i, k \in 1..Len(store) :
        /\ store[i].status = "completed" /\ hist.calls[store[i].id] = 1
        /\ store[k].status = "pending" /\ store[k].scheduled_for > now
        /\ store[i].scheduled_for <= now

\* C2: a job's status never changes once it is completed, cancelled or
\* failed, whatever operation runs.
C2_StatusMonotonic ==
    [][\A i \in 1..Len(store) : \A k \in 1..Len(store') :
          (store[i].id = store'[k].id /\ store[i].status \in Terminal)
              => store'[k].status = store[i].status]_vars

\* C3: a job cancelled by a successful cancel_scheduled while pending stays
\* cancelled, is not listed by list_scheduled(full=false) and is never
\* posted by run_due_jobs afterwards.
C3_CancelledNeverPosted ==
    \A id \in hist.cancelled :
        /\ id \in Ids(store)
        /\ JobWithId(store, id).status = "cancelled"
        /\ hist.calls[id] = 0
        /\ id \notin Ids(ListScheduledOn(store, FALSE).res)
        /\ \A out \in RunOutcomes(store, now) : \A mv \in MoveResults :
              id \notin RunDueJobsOn(store, now, fileDir, out, mv).called

\* a cancelled job has become due and a batch has run since: another job
\* created after it was posted
C3_Witness ==
    \E id \in hist.cancelled : \E k \in 1..Len(store) :
        /\ JobWithId(store, id).scheduled_for <= now
        /\ store[k].id > id
        /\ hist.calls[store[k].id] = 1


Orphaned(j) == Truthy(j.source_file) /\ ~Exists(j.source_file)

\* C4: every operation that loads the store first cancels the pending jobs
\* whose source file is gone, so run_due_jobs never posts such a job and
\* leaves none of them pending.
C4_LoadSelfHeals ==
    \A out \in RunOutcomes(store, now) : \A mv \in MoveResults :
      LET r == RunDueJobsOn(store, now, fileDir, out, mv)
      IN /\ \A id \in r.called : ~Orphaned(JobWithId(store, id))
         /\ \A i \in 1..Len(r.store) :
               Orphaned(store[i]) => r.store[i].status # "pending"

\* headlines of the pending jobs of file fp in the store st
PendingHeadlines(st, fp) ==
    {st[i].headline : i \in {k \in 1..Len(st) :
        st[k].source_file = fp /\ st[k].status = "pending"}}

\* C5: after sync the pending jobs of the file match its scheduled drafts,
\* every headline reported added has a pending job in the store and every
\* id reported cancelled is stored as cancelled.
C5_SyncReconciles ==
    fileDir # "gone" =>
      LET fp == PathOf(fileDir)
          ds == GetScheduled(lines, now)
          new == SyncNewDrafts(store, fp, ds)
          r == SyncOn(store, nextId, now, lines, fp, 0, [n \in 1..Len(new) |-> 0])
      IN /\ PendingHeadlines(r.store, fp) = OrgHeadlines(ds)
         /\ \A h \in Range(r.added) : h \in PendingHeadlines(r.store, fp)
         /\ \A id \in Range(r.cancelled) :
               id \in Ids(r.store) /\ JobWithId(r.store, id).status = "cancelled"

\* C6: a second sync right after a first one, the file untouched, reports
\* nothing added, nothing cancelled and leaves the store as it was.
C6_SyncIdempotent ==
    fileDir # "gone" =>
      LET fp == PathOf(fileDir)
          ds == GetScheduled(lines, now)
          new1 == SyncNewDrafts(store, fp, ds)
          r1 == SyncOn(store, nextId, now, lines, fp, 0,
                       [n \in 1..Len(new1) |-> 0])
          new2 == SyncNewDrafts(r1.store, fp, ds)
          r2 == SyncOn(r1.store, r1.nextId, now, lines, fp, 0,
                       [n \in 1..Len(new2) |-> 0])
      IN /\ r2.added = <<>>
         /\ r2.cancelled = <<>>
         /\ r2.store = r1.store

\* C7: a job once persisted stays in the store: no step removes a job, and
\* the jobs the schedule_post calls of a sync persisted are in the store
\* when the sync returns.
C7_AppendOnly ==
    /\ [][Ids(store) \subseteq Ids(store')]_vars
    /\ [](fileDir # "gone" =>
            LET fp == PathOf(fileDir)
                new == SyncNewDrafts(store, fp, GetScheduled(lines, now))
                r == SyncOn(store, nextId, now, lines, fp, 0,
                            [n \in 1..Len(new) |-> 0])
            IN Ids(r.persisted) \subseteq Ids(r.store))

\* C9: run_due_jobs never raises to its caller.
C9_RunNeverRaises ==
    \A out \in RunOutcomes(store, now) : \A mv \in MoveResults :
        ~RunDueJobsOn(store, now, fileDir, out, mv).raised

\* C10: a job created from a draft keeps source_file, headline and draft_id
\* out of its kwargs, so its platform call binds its arguments.
C10_DraftKeysPromoted ==
    \A i \in 1..Len(store) :
        Truthy(store[i].source_file) =>
            /\ DOMAIN store[i].kwargs \cap {"source_file", "headline", "draft_id"} = {}
            /\ store[i].platform \in KnownPlatforms => ClientEntered(store[i])


\* keys of the properties in the drawer of the draft whose heading is line n
RECURSIVE DrawerKeys(_, _, _)
DrawerKeys(ls, i, inprop) ==
    IF i > Len(ls) \/ StartsWithStar(ls[i]) THEN {}
    ELSE IF ls[i].k = "pstart" THEN DrawerKeys(ls, i + 1, TRUE)
    ELSE IF ls[i].k = "pend" THEN DrawerKeys(ls, i + 1, FALSE)
    ELSE IF inprop /\ ls[i].k = "prop"
         THEN {ls[i].key} \cup DrawerKeys(ls, i + 1, inprop)
    ELSE DrawerKeys(ls, i + 1, inprop)
DraftProps(ls, d) == DrawerKeys(ls, d.line_number + 1, FALSE)

\* C8: after a batch of post_draft calls on the drafts of one get_due() or
\* get_pending() call, re-parsing the file gives every successfully posted
\* draft as DONE with POSTED_AT (and POST_ID / POST_URL when the result has
\* id / url), every other draft with its heading, status and properties as
\* before, and no posted draft is due any more.
C8_PostMarksDone ==
    fileDir # "gone" =>
      \A all \in BOOLEAN :
        LET ds == IF all THEN GetPending(lines) ELSE GetDue(lines, now)
            before == Parse(lines)
        IN \A rs \in [1..Len(ds) -> PostResults] :
           LET after == PostDueLines(lines, ds, 1, rs, now)
               pa == Parse(after)
           IN /\ Len(pa) = Len(before)
              /\ \A k \in 1..Len(before) :
                   LET hits == {n \in 1..Len(ds) :
                                  /\ ds[n].line_number = before[k].line_number
                                  /\ rs[n].success
                                  /\ ds[n].platform \in PostPlatforms}
                   IN /\ pa[k].headline = before[k].headline
                      /\ pa[k].platform = before[k].platform
                      /\ pa[k].draft_id = before[k].draft_id
                      /\ IF hits = {}
                         THEN /\ pa[k].status = before[k].status
                              /\ DraftProps(after, pa[k]) = DraftProps(lines, before[k])
                         ELSE /\ pa[k].status = "DONE"
                              /\ ~IsDue(pa[k], now)
                              /\ "POSTED_AT" \in DraftProps(after, pa[k])
                              /\ \A n \in hits :
                                   /\ rs[n].id => "POST_ID" \in DraftProps(after, pa[k])
                                   /\ rs[n].url => "POST_URL" \in DraftProps(after, pa[k])

\* headlines of the drafts of the file that are still TODO
TodoHeadlines(ls) == {d.headline : d \in Range(GetPending(ls))}

\* C11: sync cancels a pending job of the file only when the file has no
\* TODO draft under the job's headline any more; a job whose draft is still
\* TODO is kept, also when the draft's time has passed and the job has not
\* run yet.
C11_SyncCancelsOnlyGone ==
    fileDir # "gone" =>
      LET fp == PathOf(fileDir)
          new == SyncNewDrafts(store, fp, GetScheduled(lines, now))
          r == SyncOn(store, nextId, now, lines, fp, 0, [n \in 1..Len(new) |-> 0])
      IN \A id \in Range(r.cancelled) :
            JobWithId(store, id).headline \notin TodoHeadlines(lines)

\* C12: schedule_all(dry_run=false, auto_move=true) that returns, on a file
\* in drafts/ with a sibling scheduled/ and at least one scheduled() draft,
\* moves the file to scheduled/ and leaves one pending job per draft whose
\* source_file is the new path; a listing right after cancels none of them
\* as orphaned.  Without auto_move, or in a dry run, the file stays.
C12_ScheduleAllMoves ==
    /\ [](fileDir # "gone" =>
            LET ds == GetScheduled(lines, now)
                offs == [n \in 1..Len(ds) |-> 0]
                r == ScheduleAllOn(store, nextId, now, lines, fileDir, 0, offs,
                                   TRUE, "ok")
                s == ScheduleAllOn(store, nextId, now, lines, fileDir, 0, offs,
                                   FALSE, "ok")
            IN /\ s.fileDir = fileDir
               /\ ~s.moves
               /\ (fileDir = "drafts" /\ "scheduled" \in dirs /\ Len(ds) > 0) =>
                    /\ r.fileDir = "scheduled"
                    /\ Len(r.store) = Len(store) + Len(ds)
                    /\ \A n \in 1..Len(ds) :
                         LET j == r.store[Len(store) + n]
                         IN /\ j.id = nextId + n - 1
                            /\ j.status = "pending"
                            /\ j.headline = ds[n].headline
                            /\ j.scheduled_for = ds[n].scheduled
                            /\ j.source_file = PathOf("scheduled"))
    /\ [][(fileDir = "drafts" /\ fileDir' = "scheduled") =>
            /\ nextId' > nextId
            /\ \A i \in 1..Len(store') :
                 store'[i].id >= nextId =>
                    /\ store'[i].status = "pending"
                    /\ store'[i].source_file = PathOf("scheduled")
            /\ (ListScheduledOn(store, FALSE).store)' = store']_vars

\* schedule_all has moved the file: it is in scheduled/ and a pending job of
\* it carries the new path
C12_Witness ==
    /\ fileDir = "scheduled"
    /\ \E i \in 1..Len(store) :
         /\ store[i].status = "pending"
         /\ store[i].source_file = PathOf("scheduled")
         /\ store[i].kwargs = <<>>

\* C13: after a run_due_jobs batch that returns, a source file that exists
\* and has a sibling posted/ is in posted/ exactly when a job referencing it
\* completed in the batch and every job referencing it is completed or
\* cancelled; then every job that referenced it carries the new path in the
\* store; otherwise the file stays and no source_file changes.
C13_MoveToPosted ==
    (fileDir # "gone" /\ "posted" \in dirs) =>
      \A out \in RunOutcomes(store, now) :
        LET r == RunDueJobsOn(store, now, fileDir, out, "ok")
            fp == PathOf(fileDir)
            refs == {i \in 1..Len(store) : store[i].source_file = fp}
            cond == /\ \E i \in refs : /\ store[i].status = "pending"
                                       /\ r.store[i].status = "completed"
                    /\ \A i \in refs : r.store[i].status \in {"completed", "cancelled"}
        IN /\ Len(r.store) = Len(store)
           /\ cond => /\ r.fileDir = "posted"
                      /\ \A i \in refs : r.store[i].source_file = PathOf("posted")
           /\ ~cond => /\ r.fileDir = fileDir
                       /\ \A i \in 1..Len(store) :
                            r.store[i].source_file = store[i].source_file

\* a batch has moved the file to posted/: a job of it was posted, is
\* completed and carries the new path
C13_Witness ==
    /\ fileDir = "posted"
    /\ \E i \in 1..Len(store) :
         /\ store[i].status = "completed"
         /\ store[i].source_file = PathOf("posted")
         /\ hist.calls[store[i].id] = 1

\* schedule_time strings parse_schedule_time rejects: unrecognized syntax,
\* "+<N>" with another unit, a non-numeric amount, an hour strptime refuses
RejectedExprs == {BadExpr, RelExpr(1, "d"), BadAmountExpr, HmExpr(DayMinutes)}
CallKwargs == {<<>>, [source_file |-> "drafts/f.org", headline |-> "A"]}

\* C14: schedule_post with a schedule_time the parser rejects returns
\* success=false and leaves the store as it was: no job is created and no
\* job is changed.
C14_RejectedTimeNoJob ==
    \A e \in RejectedExprs : \A fl \in {0, 1} : \A kw \in CallKwargs :
    \A off \in FluctuationOffsets(fl, "none") :
      LET r == SchedulePostOn(store, nextId, now, "twitter", <<"hello">>, e,
                              fl, off, kw)
      IN /\ ~r.res.success
         /\ ~r.created
         /\ r.store = store

\* a rejected call meets a store that already holds a pending job
C14_Witness ==
    /\ \E i \in 1..Len(store) : store[i].status = "pending"
    /\ \E e \in RejectedExprs :
         ~SchedulePostOn(store, nextId, now, "twitter", <<"hello">>, e,
                         0, 0, <<>>).res.success

\* job ids a caller can name: the ids ever given out and one never given
CallerIds == 1..(MaxJobs + 1)

\* C15: cancel_scheduled with an id that matches no job in the store
\* returns success=false with a "not found" error and leaves the store
\* unchanged.
C15_CancelUnknownId ==
    \A id \in CallerIds \ Ids(store) :
      LET r == CancelScheduledOn(store, id)
      IN /\ ~r.success
         /\ r.error = "Job not found"
         /\ r.store = store

\* the store holds a pending job and another id names none
C15_Witness ==
    /\ \E i \in 1..Len(store) : store[i].status = "pending" /\ store[i].id = 1
    /\ 2 \notin Ids(store)
    /\ ~CancelScheduledOn(store, 2).success

\* C16: in every store state a job that has source_file set has headline
\* set too, whatever schedule_post call created it.
C16_SourceFileHasHeadline ==
    \A i \in 1..Len(store) :
        store[i].source_file # NoneV => store[i].headline # NoneV

\* the file after the user edited one SCHEDULED timestamp or one body line
\* (or nothing)
EditedFiles(ls) ==
    {ls}
    \cup {[ls EXCEPT ![i] = SchedL(t)] :
            i \in {k \in 1..Len(ls) : ls[k].k = "sched"}, t \in 0..(MaxTime + 1)}
    \cup {[ls EXCEPT ![i] = TextL(<<"edited">>)] :
            i \in {k \in 1..Len(ls) : ls[k].k = "text"}}

\* indexes of the pending jobs of file fp with headline h
PendingOf(st, fp, h) ==
    {i \in 1..Len(st) : /\ st[i].source_file = fp /\ st[i].status = "pending"
                        /\ st[i].headline = h}

C18_TimeOnlyRolls ==
    \A m \in TimesOfDay :
      LET p == ParseScheduleTime(HmExpr(m), now)
          today == now - (now % DayMinutes) + m
      IN /\ p.ok
         /\ p.t = IF today > now THEN today ELSE today + DayMinutes

\* C19: with fluctuation N > 0 the job's scheduled_for differs from the
\* recorded original_time by d minutes, -N <= d <= 0 for bias early,
\* 0 <= d <= N for late, -N <= d <= N for none, and the recorded
\* fluctuation is d, on the job and in the result; with fluctuation 0
\* scheduled_for is the parsed time and neither field is recorded.
C19_FluctuationBounds ==
    /\ \A i \in 1..Len(store) :
         IF store[i].original_time = NoTime
         THEN store[i].fluctuation_applied = NoTime
         ELSE /\ store[i].fluctuation_applied # NoTime
              /\ store[i].fluctuation_applied
                    = store[i].scheduled_for - store[i].original_time
    /\ \A c \in FluctCalls : \A off \in FluctuationOffsets(c.fluctuation, c.bias) :
         LET r == SchedulePostOn(store, nextId, now, c.platform, <<"hello">>,
                                 c.e, c.fluctuation, off, c.kwargs)
             j == r.store[Len(r.store)]
             parsed == ParseScheduleTime(c.e, now).t
             d == j.scheduled_for - parsed
             N == c.fluctuation
         IN /\ r.created /\ r.res.success /\ j.id = nextId
            /\ r.res.scheduled_for = j.scheduled_for
            /\ IF N > 0
               THEN /\ j.original_time = parsed
                    /\ j.fluctuation_applied = d
                    /\ r.res.original_time = parsed
                    /\ r.res.fluctuation_minutes = d
                    /\ c.bias = "early" => (0 - N <= d /\ d <= 0)
                    /\ c.bias = "late" => (0 <= d /\ d <= N)
                    /\ c.bias = "none" => (0 - N <= d /\ d <= N)
               ELSE /\ d = 0
                    /\ j.original_time = NoTime
                    /\ j.fluctuation_applied = NoTime
                    /\ r.res.original_time = NoTime
                    /\ r.res.fluctuation_minutes = NoTime

\* the store holds a job moved earlier by the full fluctuation and another
\* one moved later or scheduled without fluctuation
C19_Witness ==
    /\ \E i \in 1..Len(store) :
         /\ store[i].original_time # NoTime
         /\ store[i].fluctuation_applied = 0 - MaxFluct
    /\ \E i \in 1..Len(store) :
         \/ store[i].original_time = NoTime
         \/ store[i].fluctuation_applied > 0

\* a sequence of jobs in ascending scheduled_for order
Ascending(s) ==
    \A i, k \in 1..Len(s) : i < k => s[i].scheduled_for <= s[k].scheduled_for

\* C20: list_scheduled(full=false) returns exactly the jobs that are
\* pending after the orphan sweep, list_scheduled(full=true) every job of
\* the store, and both lists are in ascending scheduled_for order.
C20_ListFilterAndOrder ==
    LET p == ListScheduledOn(store, FALSE)
        f == ListScheduledOn(store, TRUE)
    IN /\ p.store = f.store
       /\ Len(p.store) = Len(store)
       /\ Ids(p.store) = Ids(store)
       /\ Range(p.res) = {j \in Range(p.store) : j.status = "pending"}
       /\ Len(p.res) = Cardinality({i \in 1..Len(p.store) :
                                      p.store[i].status = "pending"})
       /\ Range(f.res) = Range(f.store)
       /\ Len(f.res) = Len(f.store)
       /\ Range(p.res) \subseteq Range(f.res)
       /\ Ascending(p.res)
       /\ Ascending(f.res)

\* the store holds a pending job behind a later-scheduled job that is not
\* pending any more
C20_Witness ==
    \E i, k \in 1..Len(store) :
        /\ i < k
        /\ store[i].scheduled_for > store[k].scheduled_for
        /\ store[i].status # "pending"
        /\ store[k].status = "pending"

\* C21: on a store file that is missing, is not JSON or holds no array of
\* jobs, list_scheduled, schedule_post, cancel_scheduled,
\* update_source_path, run_due_jobs and sync raise nothing and leave what
\* they leave on an empty store.
C21_CorruptStoreIsEmpty ==
    (storeFile # "array" /\ store = <<>> /\ fileDir # "gone") =>
      \A op \in StoreOps : \A c \in DirectCalls :
        LET r == OnCorruptStore(op, storeFile, nextId, now, c, lines, PathOf(fileDir))
            e == OnCorruptStore(op, "array", nextId, now, c, lines, PathOf(fileDir))
        IN /\ ~r.raised
           /\ r.store = e.store
           /\ r.created = e.created

\* the updates reported successful that the store st no longer shows: ids
\* handed out to created jobs that are not in it, and jobs cancelled while
\* pending that are in it with another status
LostUpdates(st, nid, h) ==
    {id \in 1..(nid - 1) : id \notin Ids(st)}
    \cup {id \in h.cancelled : id \in Ids(st) /\ JobWithId(st, id).status # "cancelled"}

\* C22: with a single process whose calls do not overlap (no run_due_jobs
\* between its load and its save) no step loses an update that was reported
\* successful; updates are lost only by a save that overwrites what another
\* process wrote after the load.
C22_SerialLosesNoUpdate ==
    [][(daemon.pc = "off" /\ daemon'.pc = "off") =>
          LostUpdates(store', nextId', hist') \subseteq LostUpdates(store, nextId, hist)]_vars

\* a daemon's save has just overwritten a cancel or a new job that another
\* process wrote after the daemon's load
C22_RaceLosesCancel ==
    \E id \in hist.cancelled :
        id \in Ids(store) /\ JobWithId(store, id).status # "cancelled"


\* indexes of the parsed drafts that satisfy P
DraftsWhere(ds, P(_)) == {i \in 1..Len(ds) : P(ds[i])}

\* C23: status_report counts the parsed drafts (total), those with status
\* TODO (pending), with status DONE (done), the TODO drafts scheduled at or
\* before now (due_now) and after now (scheduled); due_now and scheduled
\* count disjoint drafts, due_now + scheduled <= pending, pending + done <=
\* total; the counts are those of due() and scheduled() at the same time;
\* one TODO draft scheduled before now and one DONE draft give 2, 1, 1, 1, 0.
C23_StatusReportCounts ==
    fileDir # "gone" =>
      LET ds == Parse(lines)
          r == StatusReport(lines, now)
          todo == DraftsWhere(ds, LAMBDA d : d.status = "TODO")
          done == DraftsWhere(ds, LAMBDA d : d.status = "DONE")
          due == DraftsWhere(ds, LAMBDA d : d.status = "TODO" /\ d.scheduled # NoSched
                                             /\ d.scheduled <= now)
          sch == DraftsWhere(ds, LAMBDA d : d.status = "TODO" /\ d.scheduled # NoSched
                                             /\ d.scheduled > now)
      IN /\ r.total = Len(ds)
         /\ r.pending = Cardinality(todo)
         /\ r.done = Cardinality(done)
         /\ r.due_now = Cardinality(due)
         /\ r.scheduled = Cardinality(sch)
         /\ due \cap sch = {}
         /\ r.due_now + r.scheduled <= r.pending
         /\ r.pending + r.done <= r.total
         /\ r.due_now = Len(GetDue(lines, now))
         /\ r.scheduled = Len(GetScheduled(lines, now))
         /\ (/\ Len(ds) = 2
             /\ Cardinality(done) = 1
             /\ \E i \in todo : ds[i].scheduled # NoSched /\ ds[i].scheduled < now)
            => r = [total |-> 2, pending |-> 1, done |-> 1, due_now |-> 1,
                    scheduled |-> 0]

\* the file holds one TODO draft scheduled before now and one DONE draft
C23_Witness ==
    /\ fileDir # "gone"
    /\ Len(Parse(lines)) = 2
    /\ \E i, k \in 1..2 :
         /\ Parse(lines)[i].status = "TODO"
         /\ Parse(lines)[i].scheduled # NoSched
         /\ Parse(lines)[i].scheduled < now
         /\ Parse(lines)[k].status = "DONE"
    /\ StatusReport(lines, now).due_now = 1


\* C24: post(draft, dry_run=true) and schedule_all(dry_run=true) leave the
\* lines of the draft file, the directory of the file and the job store as
\* they are and call no platform client; status_report, list_drafts,
\* pending, due and scheduled only read the file.
C24_PreviewsChangeNothing ==
    fileDir # "gone" =>
      /\ \A i \in 1..Len(Parse(lines)) : \A r \in PostResults :
           PostDraftOn(lines, Parse(lines)[i], r, now, TRUE)
             = [lines |-> lines, called |-> FALSE]
      /\ \A auto_move \in BOOLEAN : \A mv \in {"ok", "raise"} :
           ScheduleAllRun(store, nextId, now, lines, fileDir, TRUE, auto_move, mv)
             = [store |-> store, nextId |-> nextId, fileDir |-> fileDir,
                lines |-> lines]

\* a state where the same calls without dry_run change the file, the store
\* and the directory and call the client
C24_Witness ==
    /\ fileDir # "gone"
    /\ store # <<>>
    /\ \E i \in 1..Len(Parse(lines)) : \E r \in PostResults :
         /\ PostDraftOn(lines, Parse(lines)[i], r, now, FALSE).lines # lines
         /\ PostDraftOn(lines, Parse(lines)[i], r, now, FALSE).called
    /\ ScheduleAllRun(store, nextId, now, lines, fileDir, FALSE, TRUE, "ok").store # store
    /\ ScheduleAllRun(store, nextId, now, lines, fileDir, FALSE, TRUE, "ok").fileDir # fileDir


\* C25: with one process and calls that do not overlap, client.post runs at
\* most once per job: a job that is completed or failed is not executed by
\* any later run_due_jobs, whatever schedule_post, cancel_scheduled,
\* update_source_path, list_scheduled and sync calls come in between.
C25_PostAtMostOncePerJob ==
    /\ \A id \in 1..MaxJobs : hist.calls[id] <= 1
    /\ \A i \in 1..Len(store) :
         store[i].status \in {"completed", "failed"} =>
           \A out \in RunOutcomes(store, now) :
             /\ store[i].id \notin RunCalled(store, now, out)
             /\ RunLoop(store, now, out)[i] = store[i]

\* a job failed in the platform call, and another job is due now
C25_Witness ==
    \E i, k \in 1..Len(store) :
        /\ store[i].status = "failed" /\ store[i].result = "fail"
        /\ hist.calls[store[i].id] = 1
        /\ IsDueJob(store[k], now) /\ ClientEntered(store[k])


\* indexes of the jobs of the store that were created from draft d of the
\* file at path fp
JobsOfDraft(st, fp, d) ==
    {i \in 1..Len(st) : st[i].source_file = fp /\ st[i].headline = d.headline}

\* C26: a draft is delivered at most once over the two paths: when the file
\* shows a draft as DONE with POSTED_AT, run_due_jobs calls the client for
\* no job created from it; when a job created from a draft is completed,
\* the draft is not among due() any more.
C26_DeliveredOnce ==
    fileDir # "gone" =>
      /\ \A n \in 1..Len(Parse(lines)) :
           (/\ Parse(lines)[n].status = "DONE"
            /\ "POSTED_AT" \in DraftProps(lines, Parse(lines)[n]))
           => \A i \in JobsOfDraft(store, PathOf(fileDir), Parse(lines)[n]) :
              \A out \in RunOutcomes(store, now) :
                  store[i].id \notin RunCalled(store, now, out)
      /\ \A n \in 1..Len(GetDue(lines, now)) :
           \A i \in JobsOfDraft(store, PathOf(fileDir), GetDue(lines, now)[n]) :
               store[i].status # "completed"


\* indexes of the pending jobs of st for headline h of the file at path fp
PendingOfDraft(st, fp, h) ==
    {i \in 1..Len(st) : /\ st[i].status = "pending"
                        /\ st[i].source_file = fp
                        /\ st[i].headline = h}

\* C27: on a file with distinct headlines, every state reached through
\* schedule_all and sync holds at most one pending job per source file and
\* headline, and after a sync every headline reported unchanged has one.
C27_OnePendingPerDraft ==
    /\ \A i, k \in 1..Len(store) :
         (/\ store[i].status = "pending" /\ store[k].status = "pending"
          /\ Truthy(store[i].source_file)
          /\ store[i].source_file = store[k].source_file
          /\ store[i].headline = store[k].headline)
         => i = k
    /\ fileDir # "gone" =>
         LET fp == PathOf(fileDir)
             new == SyncNewDrafts(store, fp, GetScheduled(lines, now))
             r == SyncOn(store, nextId, now, lines, fp, 0, [n \in 1..Len(new) |-> 0])
         IN \A n \in 1..Len(r.unchanged) :
              Cardinality(PendingOfDraft(r.store, fp, r.unchanged[n])) <= 1


\* job id is in the store, pending, and its time has come
DuePending(id) ==
    id \in Ids(store) /\ IsDueJob(JobWithId(store, id), now)

\* C28: while the daemon loop runs, every pending job whose scheduled_for
\* has passed leaves pending (completed, failed or cancelled) unless the
\* daemon is interrupted; a polling cycle leaves no job pending that was
\* due when it started; the loop ends only by external interrupt.
C28_DaemonRunsDueJobs ==
    /\ [][(daemon.pc = "running" /\ daemon'.pc = "sleeping") =>
            \A i \in 1..Len(store') :
                ~(store'[i].status = "pending" /\ store'[i].scheduled_for <= now)]_vars
    /\ [][(daemon.pc \in {"running", "sleeping"}
             /\ daemon'.pc \notin {"running", "sleeping"})
            => daemon'.pc = "stopped"]_vars
    /\ \A id \in 1..MaxJobs :
         DuePending(id) ~> (daemon.pc = "stopped" \/ ~DuePending(id))


\* C29: update_status(draft, new_status) on a freshly parsed draft rewrites
\* the heading so that it carries new_status, replacing the keyword or, when
\* the heading has none, inserting it after the asterisks; parsing the file
\* again gives the same drafts, this one with status new_status and the
\* same headline.
C29_SetStatus ==
    fileDir # "gone" =>
      \A n \in 1..Len(Parse(lines)) : \A new_status \in Keywords :
        LET draft == Parse(lines)[n]
            after == UpdateStatus(lines, draft, new_status)
        IN /\ Len(Parse(after)) = Len(Parse(lines))
           /\ Parse(after)[n].status = new_status
           /\ Parse(after)[n].headline = draft.headline
           /\ HeadlineGroups(after[draft.line_number]).status = new_status
           /\ \A i \in 1..Len(lines) : i # draft.line_number => after[i] = lines[i]


\* first line after heading i that starts with "*", or the end of the file
BodyEnd(ls, i) ==
    IF \E j \in (i + 1)..Len(ls) : ls[j].k = "head"
    THEN CHOOSE j \in (i + 1)..Len(ls) :
            ls[j].k = "head" /\ \A m \in (i + 1)..(j - 1) : ls[m].k # "head"
    ELSE Len(ls) + 1

\* line j of the body of heading i lies inside a property drawer
InDrawer(ls, i, j) ==
    \E p \in (i + 1)..(j - 1) :
        ls[p].k = "pstart" /\ \A q \in (p + 1)..(j - 1) : ls[q].k # "pend"

\* the body of heading i holds text: a line that is no SCHEDULED line, no
\* drawer line, no directive and not blank
HasContent(ls, i) ==
    \E j \in (i + 1)..(BodyEnd(ls, i) - 1) :
        ls[j].k \in {"text", "prop"} /\ ~InDrawer(ls, i, j)

====
